---------------------------- MODULE Spec2Model ----------------------------
(* A model of src/modules/scraper.py: get_adv_stat (fuzzy name match,     *)
(* index-key derivation, link resolution, statistic extraction), get_per  *)
(* and get_standings.                                                     *)
(*                                                                        *)
(* Conventions.  A Python str that the code inspects character by         *)
(* character (player names, cell texts) is a sequence of one-character    *)
(* strings; a str that is only built and compared (URLs, hrefs, statistic *)
(* names) is a TLA+ string.  An optional value (Python None) is a         *)
(* sequence of length 0 (None) or 1 (<<x>>).  A float is a pair           *)
(* <<numerator, denominator>> with a positive denominator.                *)
EXTENDS Integers, Sequences, FiniteSets, TLC

VARIABLES
    call,            \* the function being called
    pc,              \* position in the function body
    exc,             \* the exception that ended the call, None while none
    result,          \* the returned value, None while none
    name,            \* get_adv_stat: argument name
    stat,            \* get_adv_stat: argument stat
    alltime_player_list,  \* the reference list imported at line 7
    site,            \* what the site serves: index page and detail page
    i,               \* number of loop iterations completed in the current loop
    similar_name,    \* get_adv_stat: (name, ratio) best so far
    target_name,     \* get_adv_stat: similar_name[0]
    ln_initial,      \* get_adv_stat: the index key
    url,             \* get_adv_stat: the lookup url
    gets,            \* the urls passed to requests.get so far, in order
    page_content,    \* the page parsed from the last response
    stat_soup,       \* get_adv_stat: the cells parsed from the comment
    stat_tag,        \* get_adv_stat: adv_stat_map[stat]
    steps,           \* the steps of the body executed so far, in order
    table,           \* get_per, get_standings: the rows of the fetched page
    per_list,        \* get_per: the pairs appended so far
    standings,       \* get_standings: the teams appended so far
    conf,            \* get_standings: argument conf
    year             \* get_per: argument year, as str(year)

vars == <<call, pc, exc, result, name, stat, alltime_player_list, site, i,
          similar_name, target_name, ln_initial, url, gets, page_content,
          stat_soup, stat_tag, steps, table, per_list, standings, conf, year>>

None == <<>>
Some(x) == <<x>>

-----------------------------------------------------------------------------
(* Bounds of the model.                                                    *)

\* longest reference list
MaxRefs == 3
\* most th entries on an index page
MaxEntries == 3
\* most td cells in a row or in the advanced comment
MaxCells == 2
\* most rows of a get_per table
MaxPerRows == 2
\* most rows of the standings table
MaxRows == 17

-----------------------------------------------------------------------------
(* Floats as fractions.                                                    *)

FloatGt(x, y) == x[1] * y[2] > y[1] * x[2]
FloatEq(x, y) == x[1] * y[2] = y[1] * x[2]
Zero == <<0, 1>>

-----------------------------------------------------------------------------
(* str.split(), str.lower()                                                *)

Whitespace == {" "}

UpperCase == <<"A", "B", "C", "D", "E", "F", "G", "H", "I", "J", "K", "L", "M",
               "N", "O", "P", "Q", "R", "S", "T", "U", "V", "W", "X", "Y", "Z">>
LowerCase == <<"a", "b", "c", "d", "e", "f", "g", "h", "i", "j", "k", "l", "m",
               "n", "o", "p", "q", "r", "s", "t", "u", "v", "w", "x", "y", "z">>

\* str.lower() of one character
Lower(c) ==
    IF \E k \in 1 .. Len(UpperCase) : UpperCase[k] = c
      THEN LowerCase[CHOOSE k \in 1 .. Len(UpperCase) : UpperCase[k] = c]
      ELSE c

RECURSIVE SplitFrom(_, _, _)
\* str.split() with no separator: the maximal runs of non-whitespace
\* characters of s, in order; cur is the token being read.
SplitFrom(s, k, cur) ==
    IF k > Len(s)
      THEN IF cur = <<>> THEN <<>> ELSE <<cur>>
      ELSE IF s[k] \in Whitespace
             THEN IF cur = <<>> THEN SplitFrom(s, k + 1, <<>>)
                                ELSE <<cur>> \o SplitFrom(s, k + 1, <<>>)
             ELSE SplitFrom(s, k + 1, Append(cur, s[k]))

Split(s) == SplitFrom(s, 1, <<>>)

-----------------------------------------------------------------------------
(* difflib.SequenceMatcher(None, a, b).ratio(), for strings shorter than   *)
(* the 200 characters at which autojunk starts.                            *)

Min(S) == CHOOSE x \in S : \A y \in S : x <= y
Max(S) == CHOOSE x \in S : \A y \in S : x >= y

\* a[p .. p+k-1] = b[q .. q+k-1]
BlockAt(a, b, p, q, k) ==
    /\ p + k - 1 <= Len(a)
    /\ q + k - 1 <= Len(b)
    /\ \A d \in 0 .. k - 1 : a[p + d] = b[q + d]

\* find_longest_match: the longest common block; of those the one starting
\* earliest in a, and of those the one starting earliest in b. <<p, q, k>>.
FindLongestMatch(a, b) ==
    LET ks == {k \in 0 .. Len(a) :
                 \E p \in 1 .. Len(a), q \in 1 .. Len(b) : BlockAt(a, b, p, q, k)}
        k  == IF ks = {} THEN 0 ELSE Max(ks)
    IN  IF k = 0 THEN <<1, 1, 0>>
        ELSE LET p == Min({x \in 1 .. Len(a) :
                             \E q \in 1 .. Len(b) : BlockAt(a, b, x, q, k)})
                 q == Min({y \in 1 .. Len(b) : BlockAt(a, b, p, y, k)})
             IN  <<p, q, k>>

RECURSIVE Matches(_, _)
\* get_matching_blocks: the summed size of the longest block and of the
\* blocks found recursively to its left and to its right.
Matches(a, b) ==
    IF a = <<>> \/ b = <<>> THEN 0
    ELSE LET m == FindLongestMatch(a, b)
         IN  IF m[3] = 0 THEN 0
             ELSE m[3]
                  + Matches(SubSeq(a, 1, m[1] - 1), SubSeq(b, 1, m[2] - 1))
                  + Matches(SubSeq(a, m[1] + m[3], Len(a)),
                            SubSeq(b, m[2] + m[3], Len(b)))

\* ratio(): 2.0 * matches / (len(a) + len(b)), and 1.0 when both are empty
Ratio(a, b) ==
    IF Len(a) + Len(b) = 0 THEN <<1, 1>>
    ELSE <<2 * Matches(a, b), Len(a) + Len(b)>>

-----------------------------------------------------------------------------
(* float(text)                                                             *)

Digits == {"0", "2", "5"}
DigitVal(c) == CASE c = "0" -> 0 [] c = "2" -> 2 [] c = "5" -> 5

RECURSIVE Pow10(_)
Pow10(n) == IF n = 0 THEN 1 ELSE 10 * Pow10(n - 1)

RECURSIVE DigitsVal(_)
DigitsVal(ds) ==
    IF ds = <<>> THEN 0
    ELSE 10 * DigitsVal(SubSeq(ds, 1, Len(ds) - 1)) + DigitVal(ds[Len(ds)])

\* text is a decimal literal: digits with at most one point, one digit at least
IsNumeric(text) ==
    /\ \A k \in 1 .. Len(text) : text[k] \in Digits \cup {"."}
    /\ Cardinality({k \in 1 .. Len(text) : text[k] = "."}) <= 1
    /\ \E k \in 1 .. Len(text) : text[k] \in Digits

\* float(text) of a decimal literal
ParseFloat(text) ==
    LET dots == {k \in 1 .. Len(text) : text[k] = "."}
        ds   == SelectSeq(text, LAMBDA c : c \in Digits)
        frac == IF dots = {} THEN 0 ELSE Len(text) - Min(dots)
    IN  <<DigitsVal(ds), Pow10(frac)>>

\* float(x) of an optional text: the value, or the exception raised
Float(x) ==
    IF x = None THEN [ok |-> FALSE, type |-> "TypeError"]
    ELSE IF ~IsNumeric(x[1]) THEN [ok |-> FALSE, type |-> "ValueError"]
    ELSE [ok |-> TRUE, val |-> ParseFloat(x[1])]

-----------------------------------------------------------------------------
(* Module constants of scraper.py                                          *)

base_url == "https://www.basketball-reference.com"

\* a table that answers one more name
AdvStatMapWithBlocks ==
    [s \in {"true shooting percentage", "total rebound percentage",
            "defensive plus/minus", "offensive plus/minus",
            "player efficiency rating", "assist percentage",
            "blocks per game"} |->
       CASE s = "true shooting percentage" -> "ts_pct"
         [] s = "total rebound percentage" -> "trb_pct"
         [] s = "defensive plus/minus"     -> "dbpm"
         [] s = "offensive plus/minus"     -> "obpm"
         [] s = "player efficiency rating" -> "per"
         [] s = "assist percentage"        -> "ast_pct"
         [] s = "blocks per game"          -> "blk_pct"]

\* lines 10-17
adv_stat_map ==
    [s \in {"true shooting percentage", "total rebound percentage",
            "defensive plus/minus", "offensive plus/minus",
            "player efficiency rating", "assist percentage"} |->
       CASE s = "true shooting percentage" -> "ts_pct"
         [] s = "total rebound percentage" -> "trb_pct"
         [] s = "defensive plus/minus"     -> "dbpm"
         [] s = "offensive plus/minus"     -> "obpm"
         [] s = "player efficiency rating" -> "per"
         [] s = "assist percentage"        -> "ast_pct"]

-----------------------------------------------------------------------------
(* get_adv_stat: the pure parts                                            *)

\* a reduction that keeps the current best on equal scores
MaxSimilarityKeepsFirst(a, b) == IF FloatGt(b[2], a[2]) THEN b ELSE a

\* a reduction with the comparison reversed
MaxSimilarityReversed(a, b) == IF FloatGt(b[2], a[2]) THEN a ELSE b

\* line 211: max_similarity = lambda a, b : a if a[1] > b[1] else b
MaxSimilarity(a, b) == IF FloatGt(a[2], b[2]) THEN a ELSE b

\* the key taken from the first token instead of the last
LnInitialOfFirstToken(n) == Lower(Split(n)[1][1])

\* line 219: target_name.split()[-1][0].lower(), of a name with a token
LnInitial(n) ==
    LET tokens == Split(n)
        last   == tokens[Len(tokens)]
    IN  Lower(last[1])

\* line 220: "{}/players/{}/".format(base_url, ln_initial)
IndexUrl(initial) == base_url \o "/players/" \o initial \o "/"

\* the urls of the per-letter index pages
IndexKeys == {LowerCase[k] : k \in 1 .. Len(LowerCase)}
IsIndexUrl(u) == \E key \in IndexKeys : u = IndexUrl(key)

\* line 227: base_url + a["href"]
DetailUrl(href) == base_url \o href

\* a test that accepts every anchor
EntryHasAnchor(row, target) == row.a

\* line 226: a and a.string == target_name
EntryMatches(row, target) ==
    /\ row.a
    /\ row.string = Some(target)

\* a scan that keeps the first link it finds
ResolveKeepsFirst(u, row, target) ==
    IF EntryMatches(row, target) /\ IsIndexUrl(u)
      THEN DetailUrl(row.href[1]) ELSE u

\* lines 226-227: the lookup url after a th whose anchor, if it matches,
\* has an href
Resolve(u, row, target) ==
    IF EntryMatches(row, target) THEN DetailUrl(row.href[1]) ELSE u

\* line 235: stat_soup.find("td", attrs={"data-stat": stat_tag}): the first
\* cell carrying the tag, None when there is none
FindCell(cells, tag) ==
    LET hits == {k \in 1 .. Len(cells) : cells[k].data_stat = Some(tag)}
    IN  IF hits = {} THEN None ELSE Some(cells[Min(hits)])

\* a loop that stops one player short
MatchDoneEarly(done, players) == done >= Len(players) - 1

\* the loop of lines 213-216 is over when every player has been compared
MatchDone(done, players) == done >= Len(players)

\* the loop of lines 224-227 is over when every th has been visited
ScanDone(done, th) == done >= Len(th)

\* a default of 1.0
DefaultStatOne == <<1, 1>>

\* line 236: the value when the cell is absent
DefaultStat == Zero

\* a placeholder that is a name
NamedPlaceholder == <<Some(<<"J", " ", "k">>), Zero>>

\* line 212: similar_name = (None, 0.0)
InitialSimilarName == <<None, Zero>>

-----------------------------------------------------------------------------
(* The site                                                                *)

\* the page the site answers a GET of u with
Serve(u) == IF IsIndexUrl(u) THEN site.index ELSE site.detail

Raise(type, at) ==
    /\ exc' = Some([type |-> type, at |-> at])
    /\ pc' = "raised"

-----------------------------------------------------------------------------
(* get_adv_stat(name, stat), lines 210-236                                 *)

inputs == <<call, name, stat, alltime_player_list, site, conf, year>>

\* lines 214-216: one iteration of the loop over alltime_player_list
MatchStep ==
    /\ call = "get_adv_stat" /\ pc = "match"
    /\ ~MatchDone(i, alltime_player_list)
    /\ LET player    == alltime_player_list[i + 1]
           ratio     == Ratio(name, player)
           curr_name == <<Some(player), ratio>>
       IN  similar_name' = MaxSimilarity(similar_name, curr_name)
    /\ i' = i + 1
    /\ steps' = Append(steps, "match")
    /\ UNCHANGED <<pc, exc, result, target_name, url, gets, page_content,
                   stat_soup, stat_tag>>
    /\ UNCHANGED <<inputs, ln_initial, table, per_list, standings>>

\* lines 218-220: target_name, ln_initial and the index url
DeriveKey ==
    /\ call = "get_adv_stat" /\ pc = "match"
    /\ MatchDone(i, alltime_player_list)
    /\ target_name' = similar_name[1]
    /\ steps' = Append(steps, "derive")
    /\ IF similar_name[1] = None
         THEN \* None.split()
              /\ Raise("AttributeError", "target_name.split")
              /\ UNCHANGED <<ln_initial, url>>
         ELSE IF Split(similar_name[1][1]) = <<>>
                THEN \* [][-1]
                     /\ Raise("IndexError", "split()[-1]")
                     /\ UNCHANGED <<ln_initial, url>>
                ELSE /\ ln_initial' = Some(LnInitial(similar_name[1][1]))
                     /\ url' = Some(IndexUrl(LnInitial(similar_name[1][1])))
                     /\ pc' = "fetch_index"
                     /\ exc' = exc
    /\ UNCHANGED <<result, i, similar_name, gets, page_content, stat_soup,
                   stat_tag>>
    /\ UNCHANGED <<inputs, table, per_list, standings>>

\* lines 221-223: GET the index url and read its th elements; requests.get
\* raises when the connection fails
FetchIndex ==
    /\ call = "get_adv_stat" /\ pc = "fetch_index"
    /\ gets' = Append(gets, url[1])
    /\ steps' = Append(steps, "fetch")
    /\ \/ /\ Raise("ConnectionError", "requests.get")
          /\ UNCHANGED <<page_content, i>>
       \/ /\ page_content' = Some(Serve(url[1]))
          /\ i' = 0
          /\ pc' = "scan"
          /\ exc' = exc
    /\ UNCHANGED <<result, similar_name, target_name, url, stat_soup, stat_tag>>
    /\ UNCHANGED <<inputs, ln_initial, table, per_list, standings>>

\* lines 224-227: one iteration of the loop over th
ScanStep ==
    /\ call = "get_adv_stat" /\ pc = "scan"
    /\ ~ScanDone(i, page_content[1].th)
    /\ LET row == page_content[1].th[i + 1]
       IN  IF EntryMatches(row, target_name[1]) /\ row.href = None
             THEN \* a["href"] of an anchor without the attribute
                  /\ Raise("KeyError", "a[href]")
                  /\ url' = url
             ELSE /\ url' = Some(Resolve(url[1], row, target_name[1]))
                  /\ UNCHANGED <<pc, exc>>
    /\ i' = i + 1
    /\ steps' = Append(steps, "resolve")
    /\ UNCHANGED <<result, similar_name, target_name, gets, page_content,
                   stat_soup, stat_tag>>
    /\ UNCHANGED <<inputs, ln_initial, table, per_list, standings>>

\* lines 228-229: GET the lookup url
FetchDetail ==
    /\ call = "get_adv_stat" /\ pc = "scan"
    /\ ScanDone(i, page_content[1].th)
    /\ gets' = Append(gets, url[1])
    /\ steps' = Append(steps, "fetch")
    /\ \/ /\ Raise("ConnectionError", "requests.get")
          /\ UNCHANGED page_content
       \/ /\ page_content' = Some(Serve(url[1]))
          /\ pc' = "comment"
          /\ exc' = exc
    /\ UNCHANGED <<result, i, similar_name, target_name, url, stat_soup,
                   stat_tag>>
    /\ UNCHANGED <<inputs, ln_initial, table, per_list, standings>>

\* lines 230-233: the first comment of the div all_advanced, parsed
ExtractComment ==
    /\ call = "get_adv_stat" /\ pc = "comment"
    /\ steps' = Append(steps, "comment")
    /\ IF ~page_content[1].div
         THEN \* advanced_div is None
              /\ Raise("AttributeError", "advanced_div.find_all")
              /\ stat_soup' = stat_soup
         ELSE IF page_content[1].comments = <<>>
                THEN \* [][0]
                     /\ Raise("IndexError", "find_all()[0]")
                     /\ stat_soup' = stat_soup
                ELSE /\ stat_soup' = Some(page_content[1].comments[1])
                     /\ pc' = "map"
                     /\ exc' = exc
    /\ UNCHANGED <<result, i, similar_name, target_name, url, gets,
                   page_content, stat_tag>>
    /\ UNCHANGED <<inputs, ln_initial, table, per_list, standings>>

\* line 234: stat_tag = adv_stat_map[stat]
MapStat ==
    /\ call = "get_adv_stat" /\ pc = "map"
    /\ steps' = Append(steps, "map")
    /\ IF stat \in DOMAIN adv_stat_map
         THEN /\ stat_tag' = Some(adv_stat_map[stat])
              /\ pc' = "extract"
              /\ exc' = exc
         ELSE /\ Raise("KeyError", "adv_stat_map[stat]")
              /\ stat_tag' = stat_tag
    /\ UNCHANGED <<result, i, similar_name, target_name, url, gets,
                   page_content, stat_soup>>
    /\ UNCHANGED <<inputs, ln_initial, table, per_list, standings>>

\* lines 235-236: the cell of the statistic, as a float, or the default
ExtractStat ==
    /\ call = "get_adv_stat" /\ pc = "extract"
    /\ steps' = Append(steps, "extract")
    /\ LET stat_td == FindCell(stat_soup[1], stat_tag[1])
       IN  IF stat_td = None
             THEN /\ result' = Some(DefaultStat)
                  /\ pc' = "done"
                  /\ exc' = exc
             ELSE LET f == Float(stat_td[1].string)
                  IN  IF f.ok
                        THEN /\ result' = Some(f.val)
                             /\ pc' = "done"
                             /\ exc' = exc
                        ELSE /\ Raise(f.type, "float(stat_td.string)")
                             /\ result' = result
    /\ UNCHANGED <<i, similar_name, target_name, url, gets, page_content,
                   stat_soup, stat_tag>>
    /\ UNCHANGED <<inputs, ln_initial, table, per_list, standings>>

NextAdv ==
    \/ MatchStep
    \/ DeriveKey
    \/ FetchIndex
    \/ ScanStep
    \/ FetchDetail
    \/ ExtractComment
    \/ MapStat
    \/ ExtractStat

-----------------------------------------------------------------------------
(* Inputs                                                                  *)

RECURSIVE SeqsUpTo(_, _)
\* the sequences over S of length at most n
SeqsUpTo(S, n) ==
    IF n = 0 THEN {<<>>}
    ELSE LET shorter == SeqsUpTo(S, n - 1)
         IN  shorter \cup {Append(q, x) : q \in shorter, x \in S}

\* player names
LeBronJames == <<"L", "e", "B", "r", "o", "n", " ", "J", "a", "m", "e", "s">>
NameJk == <<"J", " ", "k">>
NameKJ == <<"k", " ", "J">>
Mononym == <<"k">>
Blank == <<" ">>
Empty == <<>>

Queries == {<<"J">>, NameJk, Mononym, Empty}
RefPool == {LeBronJames, NameJk, NameKJ, Mononym, Blank}

MappedStat == "player efficiency rating"
UnmappedStat == "blocks per game"
Stats == {MappedStat, UnmappedStat}

Hrefs == {"/players/k/a01.html", "/players/k/b02.html"}

\* a th of an index page: with or without an anchor; the anchor with a
\* display name and with or without an href
Entries ==
    {[a |-> FALSE, string |-> None, href |-> None]}
    \cup {[a |-> TRUE, string |-> Some(d), href |-> h] :
            d \in {NameJk, NameKJ}, h \in {None} \cup {Some(x) : x \in Hrefs}}

CellTexts == {None, Some(<<"0">>), Some(<<"2", ".", "5">>), Some(<<"x">>)}

\* a td: with or without a data-stat attribute, with or without a string
Cells ==
    {[data_stat |-> t, string |-> x] :
       t \in {None, Some("per"), Some("ws")}, x \in CellTexts}

\* the advanced part of a page: no div all_advanced; a div without a
\* comment; a div whose first comment holds the cells
NoDiv == [div |-> FALSE, comments |-> <<>>]
NoComment == [div |-> TRUE, comments |-> <<>>]
Advanced(cells) == [div |-> TRUE, comments |-> <<cells>>]

\* an index page lists players and has no div all_advanced; a player page
\* has no th anchors of players
IndexPage(th) == [th |-> th] @@ NoDiv
DetailPage(adv) == [th |-> <<>>] @@ adv

\* the locals of a call before its first line
InitLocals ==
    /\ exc = None
    /\ result = None
    /\ i = 0
    /\ similar_name = InitialSimilarName
    /\ target_name = None
    /\ ln_initial = None
    /\ url = None
    /\ gets = <<>>
    /\ page_content = None
    /\ stat_soup = None
    /\ stat_tag = None
    /\ steps = <<>>
    /\ table = <<>>
    /\ per_list = <<>>
    /\ standings = <<>>

InitAdv(Q, R, S, I, D) ==
    /\ call = "get_adv_stat"
    /\ pc = "match"
    /\ name \in Q
    /\ stat \in S
    /\ alltime_player_list \in R
    /\ site \in [index : I, detail : D]
    /\ conf = ""
    /\ year = ""
    /\ InitLocals

SomeIndexPages ==
    {IndexPage(<<>>),
     IndexPage(<<[a |-> TRUE, string |-> Some(NameJk),
                  href |-> Some("/players/k/a01.html")],
                 [a |-> TRUE, string |-> Some(LeBronJames),
                  href |-> Some("/players/j/jamesle01.html")]>>)}
SomeDetailPages ==
    {DetailPage(NoDiv),
     DetailPage(Advanced(<<[data_stat |-> Some("per"),
                            string |-> Some(<<"2", ".", "5">>)]>>))}

\* every query against every reference list, on a few pages
InitMatch ==
    InitAdv(Queries, SeqsUpTo(RefPool, MaxRefs), Stats,
            SomeIndexPages, SomeDetailPages)

Spec == InitMatch /\ [][NextAdv]_vars

\* two reference lists against every index page
InitLink ==
    InitAdv({<<"J">>, NameJk}, {<<NameJk>>, <<NameKJ, NameJk>>}, {MappedStat},
            {IndexPage(th) : th \in SeqsUpTo(Entries, MaxEntries)},
            SomeDetailPages)

SpecLink == InitLink /\ [][NextAdv]_vars

-----------------------------------------------------------------------------
(* get_per(year), lines 177-192                                            *)

\* line 178: "{}/leagues/NBA_{}_advanced.html".format(base_url, str(year))
PerUrl(y) == base_url \o "/leagues/NBA_" \o y \o "_advanced.html"

\* line 186: per = 0.0
PerDefault == Zero

RECURSIVE PerOfCells(_, _, _)
\* lines 187-190: the loop over the td of a row, from cell k on, per being
\* the value so far: the value after the last cell, or the exception raised
PerOfCells(cells, k, per) ==
    IF k > Len(cells) THEN [ok |-> TRUE, val |-> per]
    ELSE IF cells[k].data_stat = None
           THEN \* stat["data-stat"] of a td without the attribute
                [ok |-> FALSE, type |-> "KeyError", at |-> "stat[data-stat]"]
           ELSE IF cells[k].data_stat = Some("per")
                  THEN LET f == Float(cells[k].string)
                       IN  IF f.ok THEN PerOfCells(cells, k + 1, f.val)
                           ELSE [ok |-> FALSE, type |-> f.type,
                                 at |-> "float(stat.string)"]
                  ELSE PerOfCells(cells, k + 1, per)

\* lines 178-182: GET the page of the year and read its full_table rows
PerFetch ==
    /\ call = "get_per" /\ pc = "fetch"
    /\ gets' = Append(gets, PerUrl(year))
    /\ \/ /\ Raise("ConnectionError", "requests.get")
          /\ UNCHANGED <<table, per_list>>
       \/ /\ table' = site.rows
          /\ per_list' = <<>>
          /\ pc' = "rows"
          /\ exc' = exc
    /\ UNCHANGED <<result, i, similar_name, target_name, ln_initial, url,
                   page_content, stat_soup, stat_tag, steps, standings>>
    /\ UNCHANGED inputs

\* lines 184-191: one iteration of the loop over the rows
PerRow ==
    /\ call = "get_per" /\ pc = "rows"
    /\ i < Len(table)
    /\ LET row == table[i + 1]
       IN  IF row.a = None
             THEN \* row.find("a") is None
                  /\ Raise("AttributeError", "row.find(a).string")
                  /\ per_list' = per_list
             ELSE LET per == PerOfCells(row.cells, 1, PerDefault)
                  IN  IF per.ok
                        THEN /\ per_list' = Append(per_list, <<row.a[1], per.val>>)
                             /\ UNCHANGED <<pc, exc>>
                        ELSE /\ Raise(per.type, per.at)
                             /\ per_list' = per_list
    /\ i' = i + 1
    /\ UNCHANGED <<result, similar_name, target_name, ln_initial, url, gets,
                   page_content, stat_soup, stat_tag, steps, table, standings>>
    /\ UNCHANGED inputs

\* line 192: return per_list
PerReturn ==
    /\ call = "get_per" /\ pc = "rows"
    /\ i >= Len(table)
    /\ result' = Some(per_list)
    /\ pc' = "done"
    /\ UNCHANGED <<exc, i, similar_name, target_name, ln_initial, url, gets,
                   page_content, stat_soup, stat_tag, steps, table, per_list,
                   standings>>
    /\ UNCHANGED inputs

NextPer ==
    \/ PerFetch
    \/ PerRow
    \/ PerReturn

\* the cells of the rows of an advanced-statistics page
PerCellLists ==
    LET cell(t, x) == [data_stat |-> t, string |-> x]
        two  == Some(<<"2", ".", "5">>)
        zero == Some(<<"0">>)
    IN  {<<>>,
         <<cell(Some("per"), two)>>,
         <<cell(Some("ws"), two)>>,
         <<cell(Some("ws"), zero), cell(Some("per"), two)>>,
         <<cell(Some("per"), two), cell(Some("ws"), zero)>>,
         <<cell(None, two)>>,
         <<cell(Some("per"), Some(<<"x">>))>>,
         <<cell(Some("per"), None)>>}

\* a tr: with or without an anchor, the anchor's string a player name
PerRows ==
    {[a |-> a, cells |-> cs] :
       a \in {None, Some(NameJk), Some(NameKJ)}, cs \in PerCellLists}

InitPer ==
    /\ call = "get_per"
    /\ pc = "fetch"
    /\ name = <<>>
    /\ stat = ""
    /\ alltime_player_list = <<>>
    /\ site \in [rows : SeqsUpTo(PerRows, MaxPerRows)]
    /\ conf = ""
    /\ year \in {"2020"}
    /\ InitLocals

\* every detail page, and every table of get_per
InitExtract ==
    \/ InitAdv({NameJk}, {<<>>, <<NameJk>>}, Stats, SomeIndexPages,
               {DetailPage(NoDiv), DetailPage(NoComment)}
               \cup {DetailPage(Advanced(cells)) :
                       cells \in SeqsUpTo(Cells, MaxCells)})
    \/ InitPer

SpecExtract == InitExtract /\ [][NextAdv \/ NextPer]_vars

-----------------------------------------------------------------------------
(* get_standings(conf), lines 138-159                                      *)

\* line 149: i%15+1
RankModulus == 15
\* line 155: standings[:15]
EastEnd == 15
\* line 156: standings[15:]
WestStart == 15

\* the slice s[lo:hi] of Python, lo and hi counted from 0
Slice(s, lo, hi) ==
    SubSeq(s, lo + 1, IF hi < Len(s) THEN hi ELSE Len(s))

\* line 149: the rank of the row enumerate numbers k
Rank(k) == (k % RankModulus) + 1

\* line 149: Team(team, wins, losses, rank), as the tuple of its arguments
Team(team, wins, losses, rank) ==
    [name |-> team, wins |-> wins, losses |-> losses, rank |-> rank]

\* a west that starts one team early
WestFromEastEnd(s) == Slice(s, WestStart - 1, Len(s))

\* line 155
East(s) == Slice(s, 0, EastEnd)
\* line 156
West(s) == Slice(s, WestStart, Len(s))

\* lines 153-159: switch.get(conf, "Invalid Conference")
Switch(s, c) ==
    CASE c = "all"  -> s
      [] c = "east" -> East(s)
      [] c = "west" -> West(s)
      [] OTHER      -> "Invalid Conference"

\* lines 139-141: GET the home page and read its full_table rows
StandingsFetch ==
    /\ call = "get_standings" /\ pc = "fetch"
    /\ gets' = Append(gets, base_url)
    /\ \/ /\ Raise("ConnectionError", "requests.get")
          /\ UNCHANGED <<table, standings>>
       \/ /\ table' = site.rows
          /\ standings' = <<>>
          /\ pc' = "rows"
          /\ exc' = exc
    /\ UNCHANGED <<result, i, similar_name, target_name, ln_initial, url,
                   page_content, stat_soup, stat_tag, steps, per_list>>
    /\ UNCHANGED inputs

\* lines 146-150: one iteration of the loop over the rows
StandingsRow ==
    /\ call = "get_standings" /\ pc = "rows"
    /\ i < Len(table)
    /\ LET row == table[i + 1]
       IN  IF row.a = None
             THEN \* row.find("a") is None
                  /\ Raise("TypeError", "row.find(a)[title]")
                  /\ standings' = standings
             ELSE /\ standings' =
                       Append(standings,
                              Team(row.a[1], row.wins, row.losses, Rank(i)))
                  /\ UNCHANGED <<pc, exc>>
    /\ i' = i + 1
    /\ UNCHANGED <<result, similar_name, target_name, ln_initial, url, gets,
                   page_content, stat_soup, stat_tag, steps, table, per_list>>
    /\ UNCHANGED inputs

\* lines 153-159: the switch and the return
StandingsReturn ==
    /\ call = "get_standings" /\ pc = "rows"
    /\ i >= Len(table)
    /\ result' = Some(Switch(standings, conf))
    /\ pc' = "done"
    /\ UNCHANGED <<exc, i, similar_name, target_name, ln_initial, url, gets,
                   page_content, stat_soup, stat_tag, steps, table, per_list,
                   standings>>
    /\ UNCHANGED inputs

NextStandings ==
    \/ StandingsFetch
    \/ StandingsRow
    \/ StandingsReturn

Confs == {"all", "east", "west", "East", ""}

\* the k-th tr of the home page: team k, or a row without an anchor
StandingsRowOf(k, anchorless) ==
    [a      |-> IF k = anchorless THEN None ELSE Some(k),
     wins   |-> <<"2">>,
     losses |-> <<"5">>]

InitStandings ==
    /\ call = "get_standings"
    /\ pc = "fetch"
    /\ name = <<>>
    /\ stat = ""
    /\ alltime_player_list = <<>>
    /\ \E n \in 0 .. MaxRows : \E anchorless \in 0 .. n :
         site = [rows |-> [k \in 1 .. n |-> StandingsRowOf(k, anchorless)]]
    /\ conf \in Confs
    /\ year = ""
    /\ InitLocals

SpecStandings == InitStandings /\ [][NextStandings]_vars

-----------------------------------------------------------------------------
(* The failures of the specification's taxonomy, as the code raises them   *)

\* line 219, None.split(): the reference list was empty
EmptyReferenceList ==
    exc = Some([type |-> "AttributeError", at |-> "target_name.split"])

\* line 219, [][-1]: the matched name has no token
MalformedName == exc = Some([type |-> "IndexError", at |-> "split()[-1]"])

\* line 234, adv_stat_map[stat] of a name that is no key
UnknownStatistic ==
    exc = Some([type |-> "KeyError", at |-> "adv_stat_map[stat]"])

-----------------------------------------------------------------------------
(* Properties of the fuzzy match and of the index key                      *)

ScoreOf(k) == Ratio(name, alltime_player_list[k])

\* the positions of the reference list whose score no other score exceeds
Best ==
    {k \in 1 .. Len(alltime_player_list) :
       \A j \in 1 .. Len(alltime_player_list) : ~FloatGt(ScoreOf(j), ScoreOf(k))}

\* the match is over: line 218 has run
Matched == call = "get_adv_stat" /\ pc # "match"

\* C1 as stated: when several names of the reference list share the maximal
\* score, the name chosen is the one that occurs earliest in the list.
C1_EarliestOnTie ==
    (Matched /\ alltime_player_list # <<>>)
      => target_name = Some(alltime_player_list[Min(Best)])

\* C1 amended: when several names of the reference list share the maximal
\* score, the name chosen is the one that occurs latest in the list: the
\* reduction keeps the current best only while its score is strictly greater
\* than the candidate's.
C1_LatestOnTie ==
    (Matched /\ alltime_player_list # <<>>)
      => target_name = Some(alltime_player_list[Max(Best)])

\* C1, witness: two different names share the maximal score and the later one is chosen
C1_Witness ==
    /\ Matched
    /\ \E j, k \in Best :
         /\ j < k
         /\ alltime_player_list[j] # alltime_player_list[k]
         /\ target_name = Some(alltime_player_list[k])

\* C2: for a non-empty reference list the name chosen is an element of the
\* list, never None, and no element has a greater score than it; also when
\* every score is 0.0.
C2_ChosenIsMaximalElement ==
    (Matched /\ alltime_player_list # <<>>)
      => /\ target_name # None
         /\ \E k \in 1 .. Len(alltime_player_list) :
              /\ target_name = Some(alltime_player_list[k])
              /\ FloatEq(similar_name[2], ScoreOf(k))
              /\ \A j \in 1 .. Len(alltime_player_list) :
                   ~FloatGt(ScoreOf(j), ScoreOf(k))

\* C2, witness: every score is 0.0 and a name of the list is chosen all the same
C2_Witness ==
    /\ Matched
    /\ alltime_player_list # <<>>
    /\ \A k \in 1 .. Len(alltime_player_list) : FloatEq(ScoreOf(k), Zero)
    /\ target_name # None

\* C6: with an empty reference list the call fails at line 219 (the failure
\* the specification calls EmptyReferenceList): it returns no value, issues
\* no request and takes no further step.
C6_EmptyListFails ==
    (call = "get_adv_stat" /\ alltime_player_list = <<>>)
      => /\ result = None
         /\ gets = <<>>
         /\ pc \in {"match", "raised"}
         /\ pc = "raised" => EmptyReferenceList

\* C6, witness: the call on an empty reference list has failed
C6_Witness ==
    /\ call = "get_adv_stat"
    /\ alltime_player_list = <<>>
    /\ pc = "raised"

\* the positions where a whitespace-separated token of n starts
TokenStarts(n) ==
    {p \in 1 .. Len(n) :
       /\ n[p] \notin Whitespace
       /\ p = 1 \/ n[p - 1] \in Whitespace}

\* C8: the index key is the lowercased first character of the last
\* whitespace-separated token of the matched name ("LeBron James" gives
\* "j"), and the index url is built from it; a matched name without a token
\* fails at line 219 (MalformedName) with no key and no request.
C8_IndexKey ==
    (Matched /\ target_name # None)
      => LET n == target_name[1]
         IN  /\ TokenStarts(n) = {}
               => /\ pc = "raised" /\ MalformedName
                  /\ ln_initial = None /\ gets = <<>> /\ result = None
             /\ TokenStarts(n) # {}
               => /\ ln_initial = Some(Lower(n[Max(TokenStarts(n))]))
                  /\ gets # <<>> => gets[1] = IndexUrl(ln_initial[1])
             /\ n = LeBronJames => ln_initial = Some("j")

\* C8, witness: "LeBron James" was matched and its key is "j"
C8_Witness ==
    /\ Matched
    /\ target_name = Some(LeBronJames)
    /\ ln_initial = Some("j")
    /\ gets # <<>>

Rep(x, n) == [k \in 1 .. n |-> x]

\* C5: a call that returns has run, in this order: one comparison per name of
\* the reference list, the key derivation, the index fetch, one link check
\* per th of the index page, the detail fetch, the comment extraction, the
\* statistic mapping and the value extraction; it issued exactly two GETs,
\* the first to the index url; and no GET is issued before every name of the
\* list has been compared.
C5_StepOrder ==
    /\ (call = "get_adv_stat" /\ pc = "done")
         => /\ steps = Rep("match", Len(alltime_player_list))
                       \o <<"derive", "fetch">>
                       \o Rep("resolve", Len(site.index.th))
                       \o <<"fetch", "comment", "map", "extract">>
            /\ Len(gets) = 2
            /\ gets[1] = IndexUrl(ln_initial[1])
            /\ gets[2] = url[1]
            /\ result # None
    /\ (call = "get_adv_stat" /\ gets # <<>>)
         => /\ Len(SelectSeq(steps, LAMBDA x : x = "match"))
                 = Len(alltime_player_list)
            /\ target_name # None

\* C5, witness: a call over two names and an index page of two entries has returned
C5_Witness ==
    /\ call = "get_adv_stat" /\ pc = "done"
    /\ Len(alltime_player_list) = 2
    /\ Len(site.index.th) = 2

-----------------------------------------------------------------------------
(* Properties of the link resolution                                       *)

\* the th entries of the index page whose display name is the matched name
Matching ==
    {k \in 1 .. Len(site.index.th) :
       /\ site.index.th[k].a
       /\ site.index.th[k].string = target_name}

\* the second GET has been issued
SecondFetch == call = "get_adv_stat" /\ Len(gets) = 2

\* C3 as stated: when entries of the index page carry the matched name, the
\* second fetch goes to the href of the first of them in page order.
C3_FirstMatchingEntry ==
    (SecondFetch /\ Matching # {})
      => /\ site.index.th[Min(Matching)].href # None
         /\ gets[2] = DetailUrl(site.index.th[Min(Matching)].href[1])

\* C3 amended: when entries of the index page carry the matched name, the
\* second fetch goes to the href of the last of them in page order.
C3_LastMatchingEntry ==
    (SecondFetch /\ Matching # {})
      => /\ site.index.th[Max(Matching)].href # None
         /\ gets[2] = DetailUrl(site.index.th[Max(Matching)].href[1])

\* C3, witness: two entries carry the matched name with different hrefs, and the second
\* fetch went to the later one's
C3_Witness ==
    /\ SecondFetch
    /\ \E j, k \in Matching :
         /\ j < k
         /\ site.index.th[j].href # site.index.th[k].href
         /\ site.index.th[j].href # None
         /\ gets[2] = DetailUrl(site.index.th[k].href[1])

\* C4: when no entry of the index page carries the matched name, the scan
\* raises nothing and leaves the lookup url alone, so the second fetch goes
\* to the url of the first.
C4_NoMatchKeepsUrl ==
    (call = "get_adv_stat" /\ target_name # None /\ Matching = {})
      => /\ pc = "scan" => (exc = None /\ url = Some(gets[1]))
         /\ (pc = "raised" /\ Len(gets) = 1)
              => exc = Some([type |-> "ConnectionError", at |-> "requests.get"])
         /\ Len(gets) = 2 => (gets[2] = gets[1] /\ IsIndexUrl(gets[2]))
         /\ (pc = "scan" /\ ScanDone(i, page_content[1].th)) => ENABLED FetchDetail

\* C4, witness: the page has entries, none carries the matched name, and the second fetch
\* went to the index url again
C4_Witness ==
    /\ SecondFetch
    /\ target_name # None
    /\ Matching = {}
    /\ \E k \in 1 .. Len(site.index.th) : site.index.th[k].a
    /\ gets[2] = gets[1]

-----------------------------------------------------------------------------
(* Properties of the statistic lookup and of the numeric defaults          *)

\* the call has ended
Ended == pc \in {"done", "raised"}

ConnectionFailed ==
    exc = Some([type |-> "ConnectionError", at |-> "requests.get"])

\* the statistic names the table translates
StatNames ==
    {"true shooting percentage", "total rebound percentage",
     "defensive plus/minus", "offensive plus/minus",
     "player efficiency rating", "assist percentage"}

\* C7 as stated: a call with a statistic name that is no key of the table
\* fails with UnknownStatistic, whatever the player name and the pages; here
\* for the calls that were served both pages.
C7_UnknownStatisticAlways ==
    (/\ call = "get_adv_stat" /\ stat \notin StatNames /\ Ended
     /\ Len(gets) = 2 /\ ~ConnectionFailed)
      => (pc = "raised" /\ UnknownStatistic)

\* C7 amended: a call with a statistic name that is no key of the table
\* returns no value, never the 0.0 default, whatever the player name and the
\* pages; it fails with UnknownStatistic when it reaches the table lookup of
\* line 234, that is when the match, both fetches and the comment extraction
\* succeeded, and with the failure of the earlier step otherwise.
C7_UnmappedNeverReturns ==
    (call = "get_adv_stat" /\ stat \notin StatNames)
      => /\ result = None
         /\ stat_tag = None
         /\ pc \notin {"extract", "done"}
         /\ (pc = "raised" /\ stat_soup # None) => UnknownStatistic
         /\ (pc = "raised" /\ stat_soup = None) => ~UnknownStatistic

\* C7, witness: the lookup of an unmapped name was reached and failed
C7_Witness ==
    /\ call = "get_adv_stat"
    /\ stat = "blocks per game"
    /\ pc = "raised"
    /\ UnknownStatistic

\* the page p has a td of the statistic tag in a comment of its div
PageHasCell(p, tag) ==
    /\ p.div
    /\ \E c \in 1 .. Len(p.comments) : \E k \in 1 .. Len(p.comments[c]) :
         p.comments[c][k].data_stat = Some(tag)

\* the first comment of the div of p exists and has no td of the tag
CommentLacksCell(p, tag) ==
    /\ p.div
    /\ p.comments # <<>>
    /\ \A k \in 1 .. Len(p.comments[1]) :
         p.comments[1][k].data_stat # Some(tag)

\* the second page of a call for the player efficiency rating has been read
DetailRead ==
    /\ call = "get_adv_stat"
    /\ stat = "player efficiency rating"
    /\ Ended
    /\ Len(gets) = 2
    /\ ~ConnectionFailed

RowLacksPer(row) ==
    \A k \in 1 .. Len(row.cells) : row.cells[k].data_stat # Some("per")

\* get_per has returned a pair per row, (name, 0.0) for a row without a
\* "per" cell
PerDefaults ==
    (call = "get_per" /\ pc = "done")
      => /\ Len(result[1]) = Len(table)
         /\ \A k \in 1 .. Len(table) :
              RowLacksPer(table[k])
                => /\ result[1][k][1] = table[k].a[1]
                   /\ FloatEq(result[1][k][2], Zero)

\* C9 as stated: get_adv_stat returns 0.0 when the fetched page has no cell
\* for the mapped statistic, and get_per yields (name, 0.0) for every row
\* without a "per" cell.
C9_ZeroWhenPageLacksCell ==
    /\ (DetailRead /\ ~PageHasCell(page_content[1], "per"))
         => (pc = "done" /\ FloatEq(result[1], Zero))
    /\ PerDefaults

\* C9 amended: get_adv_stat returns 0.0 when the fetched page has the div
\* all_advanced, the div holds a comment, and the markup of its first
\* comment has no cell for the mapped statistic; a get_per that returns has
\* yielded (name, 0.0) for every row without a "per" cell, and such a row
\* with an anchor and a data-stat on every cell is not where get_per fails.
C9_ZeroWhenCommentLacksCell ==
    /\ (DetailRead /\ CommentLacksCell(page_content[1], "per"))
         => (pc = "done" /\ FloatEq(result[1], Zero))
    /\ PerDefaults
    /\ (call = "get_per" /\ pc = "raised" /\ ~ConnectionFailed)
         => ~(/\ table[i].a # None
              /\ RowLacksPer(table[i])
              /\ \A k \in 1 .. Len(table[i].cells) :
                   table[i].cells[k].data_stat # None)

\* C9, witness: the comment holds a cell of another statistic only and 0.0 was returned
C9_Witness ==
    /\ DetailRead
    /\ CommentLacksCell(page_content[1], "per")
    /\ page_content[1].comments[1] # <<>>
    /\ pc = "done"
    /\ FloatEq(result[1], Zero)

-----------------------------------------------------------------------------
(* Properties of get_standings                                             *)

\* the team of the k-th row of the page, k counted from 1
TeamOfRow(k) ==
    [name |-> table[k].a[1], wins |-> table[k].wins,
     losses |-> table[k].losses, rank |-> ((k - 1) % 15) + 1]

=============================================================================
